---- MODULE Spec2Model ----
(***************************************************************************)
(* AES-256 in CBC mode as implemented by class AES (src/unnamed/part_000). *)
(*                                                                         *)
(* Representation.  A JavaScript string of hex text is the sequence of its *)
(* characters.  A character is modelled by a number: 0..15 is the hex      *)
(* digit with that value ("0".."9", "a".."f"), and X is a character that   *)
(* is no hex digit (nor a sign, blank or "x"), such as "g".  A message     *)
(* (the text given to AES_Encrypt) is the sequence of its UTF-16 code      *)
(* units.  Arrays are sequences: element i of the code is element i + 1   *)
(* here.  The 4x4 state matrix is a sequence of four rows of four cells,   *)
(* each cell a string of (normally) two characters; at(state, row, col)    *)
(* is state[row][col] of the code.                                         *)
(***************************************************************************)
EXTENDS Integers, Sequences, FiniteSets, TLC

(***************************************************************************)
(* JavaScript primitives                                                   *)
(***************************************************************************)

\* A character that is not a hex digit.
X == 16

\* The value parseInt gives when no digit can be read.
NaN == -1

\* The abrupt completion "TypeError" (reading a property of undefined/null).
TypeError == << -2 >>

Min(a, b) == IF a < b THEN a ELSE b

Max(a, b) == IF a > b THEN a ELSE b

\* s.slice(from, to) for 0 <= from, 0 <= to: characters from..to-1, clamped.
slice(s, from, to) == SubSeq(s, from + 1, Min(to, Len(s)))

\* s.slice(from): the rest of the string.
sliceFrom(s, from) == SubSeq(s, from + 1, Len(s))

\* parseInt(s, 16) of a string of at most two characters: the longest prefix
\* of hex digits, NaN when it is empty.
parseInt(s) ==
  IF Len(s) = 0 \/ s[1] > 15 THEN NaN
  ELSE IF Len(s) = 1 \/ s[2] > 15 THEN s[1]
  ELSE 16 * s[1] + s[2]

\* ToInt32 as applied by the operator ^ : NaN and undefined become 0.
ToInt32(v) == IF v = NaN THEN 0 ELSE v

\* a ^ b on 4-bit values: xorNibble[a + 1][b + 1].
xorNibble ==
  <<
     <<  0,  1,  2,  3,  4,  5,  6,  7,  8,  9, 10, 11, 12, 13, 14, 15 >>,
     <<  1,  0,  3,  2,  5,  4,  7,  6,  9,  8, 11, 10, 13, 12, 15, 14 >>,
     <<  2,  3,  0,  1,  6,  7,  4,  5, 10, 11,  8,  9, 14, 15, 12, 13 >>,
     <<  3,  2,  1,  0,  7,  6,  5,  4, 11, 10,  9,  8, 15, 14, 13, 12 >>,
     <<  4,  5,  6,  7,  0,  1,  2,  3, 12, 13, 14, 15,  8,  9, 10, 11 >>,
     <<  5,  4,  7,  6,  1,  0,  3,  2, 13, 12, 15, 14,  9,  8, 11, 10 >>,
     <<  6,  7,  4,  5,  2,  3,  0,  1, 14, 15, 12, 13, 10, 11,  8,  9 >>,
     <<  7,  6,  5,  4,  3,  2,  1,  0, 15, 14, 13, 12, 11, 10,  9,  8 >>,
     <<  8,  9, 10, 11, 12, 13, 14, 15,  0,  1,  2,  3,  4,  5,  6,  7 >>,
     <<  9,  8, 11, 10, 13, 12, 15, 14,  1,  0,  3,  2,  5,  4,  7,  6 >>,
     << 10, 11,  8,  9, 14, 15, 12, 13,  2,  3,  0,  1,  6,  7,  4,  5 >>,
     << 11, 10,  9,  8, 15, 14, 13, 12,  3,  2,  1,  0,  7,  6,  5,  4 >>,
     << 12, 13, 14, 15,  8,  9, 10, 11,  4,  5,  6,  7,  0,  1,  2,  3 >>,
     << 13, 12, 15, 14,  9,  8, 11, 10,  5,  4,  7,  6,  1,  0,  3,  2 >>,
     << 14, 15, 12, 13, 10, 11,  8,  9,  6,  7,  4,  5,  2,  3,  0,  1 >>,
     << 15, 14, 13, 12, 11, 10,  9,  8,  7,  6,  5,  4,  3,  2,  1,  0 >> >>

\* a ^ b for operands that are NaN or in 0..255.
BitXor(a, b) ==
  LET x == ToInt32(a)
      y == ToInt32(b)
  IN 16 * xorNibble[(x \div 16) + 1][(y \div 16) + 1]
       + xorNibble[(x % 16) + 1][(y % 16) + 1]

\* n.toString(16).padStart(2, "0") for n in 0..255.
toHex2(n) == << n \div 16, n % 16 >>

\* NaN.toString(16) is the text "NaN", three characters of which only the
\* middle one is a hex digit.
byteToHex(n) == IF n = NaN THEN << X, 10, X >> ELSE toHex2(n)

\* s.padStart(2, "0") for a string of at most two characters.
padStart2(s) ==
  IF Len(s) = 0 THEN << 0, 0 >> ELSE IF Len(s) = 1 THEN << 0, s[1] >> ELSE s

(***************************************************************************)
(* Substitution and multiplication tables (SBox.js, LookupTables.js): the  *)
(* FIPS-197 S-box, its inverse, and multiplication by 2, 3, 9, 11, 13, 14  *)
(* in GF(2^8).                                                             *)
(***************************************************************************)

\* sbox: element b of the array is sbox[b + 1].
sbox ==
  <<
     99, 124, 119, 123, 242, 107, 111, 197,  48,   1, 103,  43, 254, 215, 171, 118,
    202, 130, 201, 125, 250,  89,  71, 240, 173, 212, 162, 175, 156, 164, 114, 192,
    183, 253, 147,  38,  54,  63, 247, 204,  52, 165, 229, 241, 113, 216,  49,  21,
      4, 199,  35, 195,  24, 150,   5, 154,   7,  18, 128, 226, 235,  39, 178, 117,
      9, 131,  44,  26,  27, 110,  90, 160,  82,  59, 214, 179,  41, 227,  47, 132,
     83, 209,   0, 237,  32, 252, 177,  91, 106, 203, 190,  57,  74,  76,  88, 207,
    208, 239, 170, 251,  67,  77,  51, 133,  69, 249,   2, 127,  80,  60, 159, 168,
     81, 163,  64, 143, 146, 157,  56, 245, 188, 182, 218,  33,  16, 255, 243, 210,
    205,  12,  19, 236,  95, 151,  68,  23, 196, 167, 126,  61, 100,  93,  25, 115,
     96, 129,  79, 220,  34,  42, 144, 136,  70, 238, 184,  20, 222,  94,  11, 219,
    224,  50,  58,  10,  73,   6,  36,  92, 194, 211, 172,  98, 145, 149, 228, 121,
    231, 200,  55, 109, 141, 213,  78, 169, 108,  86, 244, 234, 101, 122, 174,   8,
    186, 120,  37,  46,  28, 166, 180, 198, 232, 221, 116,  31,  75, 189, 139, 138,
    112,  62, 181, 102,  72,   3, 246,  14,  97,  53,  87, 185, 134, 193,  29, 158,
    225, 248, 152,  17, 105, 217, 142, 148, 155,  30, 135, 233, 206,  85,  40, 223,
    140, 161, 137,  13, 191, 230,  66, 104,  65, 153,  45,  15, 176,  84, 187,  22 >>

\* invSbox: the inverse permutation of sbox.
invSbox ==
  <<
     82,   9, 106, 213,  48,  54, 165,  56, 191,  64, 163, 158, 129, 243, 215, 251,
    124, 227,  57, 130, 155,  47, 255, 135,  52, 142,  67,  68, 196, 222, 233, 203,
     84, 123, 148,  50, 166, 194,  35,  61, 238,  76, 149,  11,  66, 250, 195,  78,
      8,  46, 161, 102,  40, 217,  36, 178, 118,  91, 162,  73, 109, 139, 209,  37,
    114, 248, 246, 100, 134, 104, 152,  22, 212, 164,  92, 204,  93, 101, 182, 146,
    108, 112,  72,  80, 253, 237, 185, 218,  94,  21,  70,  87, 167, 141, 157, 132,
    144, 216, 171,   0, 140, 188, 211,  10, 247, 228,  88,   5, 184, 179,  69,   6,
    208,  44,  30, 143, 202,  63,  15,   2, 193, 175, 189,   3,   1,  19, 138, 107,
     58, 145,  17,  65,  79, 103, 220, 234, 151, 242, 207, 206, 240, 180, 230, 115,
    150, 172, 116,  34, 231, 173,  53, 133, 226, 249,  55, 232,  28, 117, 223, 110,
     71, 241,  26, 113,  29,  41, 197, 137, 111, 183,  98,  14, 170,  24, 190,  27,
    252,  86,  62,  75, 198, 210, 121,  32, 154, 219, 192, 254, 120, 205,  90, 244,
     31, 221, 168,  51, 136,   7, 199,  49, 177,  18,  16,  89,  39, 128, 236,  95,
     96,  81, 127, 169,  25, 181,  74,  13,  45, 229, 122, 159, 147, 201, 156, 239,
    160, 224,  59,  77, 174,  42, 245, 176, 200, 235, 187,  60, 131,  83, 153,  97,
     23,  43,   4, 126, 186, 119, 214,  38, 225, 105,  20,  99,  85,  33,  12, 125 >>

\* mul2: multiplication by 2 in GF(2^8) modulo x^8 + x^4 + x^3 + x + 1.
mul2 ==
  <<
       0,   2,   4,   6,   8,  10,  12,  14,  16,  18,  20,  22,  24,  26,  28,  30,
      32,  34,  36,  38,  40,  42,  44,  46,  48,  50,  52,  54,  56,  58,  60,  62,
      64,  66,  68,  70,  72,  74,  76,  78,  80,  82,  84,  86,  88,  90,  92,  94,
      96,  98, 100, 102, 104, 106, 108, 110, 112, 114, 116, 118, 120, 122, 124, 126,
     128, 130, 132, 134, 136, 138, 140, 142, 144, 146, 148, 150, 152, 154, 156, 158,
     160, 162, 164, 166, 168, 170, 172, 174, 176, 178, 180, 182, 184, 186, 188, 190,
     192, 194, 196, 198, 200, 202, 204, 206, 208, 210, 212, 214, 216, 218, 220, 222,
     224, 226, 228, 230, 232, 234, 236, 238, 240, 242, 244, 246, 248, 250, 252, 254,
      27,  25,  31,  29,  19,  17,  23,  21,  11,   9,  15,  13,   3,   1,   7,   5,
      59,  57,  63,  61,  51,  49,  55,  53,  43,  41,  47,  45,  35,  33,  39,  37,
      91,  89,  95,  93,  83,  81,  87,  85,  75,  73,  79,  77,  67,  65,  71,  69,
     123, 121, 127, 125, 115, 113, 119, 117, 107, 105, 111, 109,  99,  97, 103, 101,
     155, 153, 159, 157, 147, 145, 151, 149, 139, 137, 143, 141, 131, 129, 135, 133,
     187, 185, 191, 189, 179, 177, 183, 181, 171, 169, 175, 173, 163, 161, 167, 165,
     219, 217, 223, 221, 211, 209, 215, 213, 203, 201, 207, 205, 195, 193, 199, 197,
     251, 249, 255, 253, 243, 241, 247, 245, 235, 233, 239, 237, 227, 225, 231, 229 >>

\* mul3: multiplication by 3 in GF(2^8) modulo x^8 + x^4 + x^3 + x + 1.
mul3 ==
  <<
       0,   3,   6,   5,  12,  15,  10,   9,  24,  27,  30,  29,  20,  23,  18,  17,
      48,  51,  54,  53,  60,  63,  58,  57,  40,  43,  46,  45,  36,  39,  34,  33,
      96,  99, 102, 101, 108, 111, 106, 105, 120, 123, 126, 125, 116, 119, 114, 113,
      80,  83,  86,  85,  92,  95,  90,  89,  72,  75,  78,  77,  68,  71,  66,  65,
     192, 195, 198, 197, 204, 207, 202, 201, 216, 219, 222, 221, 212, 215, 210, 209,
     240, 243, 246, 245, 252, 255, 250, 249, 232, 235, 238, 237, 228, 231, 226, 225,
     160, 163, 166, 165, 172, 175, 170, 169, 184, 187, 190, 189, 180, 183, 178, 177,
     144, 147, 150, 149, 156, 159, 154, 153, 136, 139, 142, 141, 132, 135, 130, 129,
     155, 152, 157, 158, 151, 148, 145, 146, 131, 128, 133, 134, 143, 140, 137, 138,
     171, 168, 173, 174, 167, 164, 161, 162, 179, 176, 181, 182, 191, 188, 185, 186,
     251, 248, 253, 254, 247, 244, 241, 242, 227, 224, 229, 230, 239, 236, 233, 234,
     203, 200, 205, 206, 199, 196, 193, 194, 211, 208, 213, 214, 223, 220, 217, 218,
      91,  88,  93,  94,  87,  84,  81,  82,  67,  64,  69,  70,  79,  76,  73,  74,
     107, 104, 109, 110, 103, 100,  97,  98, 115, 112, 117, 118, 127, 124, 121, 122,
      59,  56,  61,  62,  55,  52,  49,  50,  35,  32,  37,  38,  47,  44,  41,  42,
      11,   8,  13,  14,   7,   4,   1,   2,  19,  16,  21,  22,  31,  28,  25,  26 >>

\* mul9: multiplication by 9 in GF(2^8) modulo x^8 + x^4 + x^3 + x + 1.
mul9 ==
  <<
       0,   9,  18,  27,  36,  45,  54,  63,  72,  65,  90,  83, 108, 101, 126, 119,
     144, 153, 130, 139, 180, 189, 166, 175, 216, 209, 202, 195, 252, 245, 238, 231,
      59,  50,  41,  32,  31,  22,  13,   4, 115, 122,  97, 104,  87,  94,  69,  76,
     171, 162, 185, 176, 143, 134, 157, 148, 227, 234, 241, 248, 199, 206, 213, 220,
     118, 127, 100, 109,  82,  91,  64,  73,  62,  55,  44,  37,  26,  19,   8,   1,
     230, 239, 244, 253, 194, 203, 208, 217, 174, 167, 188, 181, 138, 131, 152, 145,
      77,  68,  95,  86, 105,  96, 123, 114,   5,  12,  23,  30,  33,  40,  51,  58,
     221, 212, 207, 198, 249, 240, 235, 226, 149, 156, 135, 142, 177, 184, 163, 170,
     236, 229, 254, 247, 200, 193, 218, 211, 164, 173, 182, 191, 128, 137, 146, 155,
     124, 117, 110, 103,  88,  81,  74,  67,  52,  61,  38,  47,  16,  25,   2,  11,
     215, 222, 197, 204, 243, 250, 225, 232, 159, 150, 141, 132, 187, 178, 169, 160,
      71,  78,  85,  92,  99, 106, 113, 120,  15,   6,  29,  20,  43,  34,  57,  48,
     154, 147, 136, 129, 190, 183, 172, 165, 210, 219, 192, 201, 246, 255, 228, 237,
      10,   3,  24,  17,  46,  39,  60,  53,  66,  75,  80,  89, 102, 111, 116, 125,
     161, 168, 179, 186, 133, 140, 151, 158, 233, 224, 251, 242, 205, 196, 223, 214,
      49,  56,  35,  42,  21,  28,   7,  14, 121, 112, 107,  98,  93,  84,  79,  70 >>

\* mul11: multiplication by 11 in GF(2^8) modulo x^8 + x^4 + x^3 + x + 1.
mul11 ==
  <<
       0,  11,  22,  29,  44,  39,  58,  49,  88,  83,  78,  69, 116, 127,  98, 105,
     176, 187, 166, 173, 156, 151, 138, 129, 232, 227, 254, 245, 196, 207, 210, 217,
     123, 112, 109, 102,  87,  92,  65,  74,  35,  40,  53,  62,  15,   4,  25,  18,
     203, 192, 221, 214, 231, 236, 241, 250, 147, 152, 133, 142, 191, 180, 169, 162,
     246, 253, 224, 235, 218, 209, 204, 199, 174, 165, 184, 179, 130, 137, 148, 159,
      70,  77,  80,  91, 106,  97, 124, 119,  30,  21,   8,   3,  50,  57,  36,  47,
     141, 134, 155, 144, 161, 170, 183, 188, 213, 222, 195, 200, 249, 242, 239, 228,
      61,  54,  43,  32,  17,  26,   7,  12, 101, 110, 115, 120,  73,  66,  95,  84,
     247, 252, 225, 234, 219, 208, 205, 198, 175, 164, 185, 178, 131, 136, 149, 158,
      71,  76,  81,  90, 107,  96, 125, 118,  31,  20,   9,   2,  51,  56,  37,  46,
     140, 135, 154, 145, 160, 171, 182, 189, 212, 223, 194, 201, 248, 243, 238, 229,
      60,  55,  42,  33,  16,  27,   6,  13, 100, 111, 114, 121,  72,  67,  94,  85,
       1,  10,  23,  28,  45,  38,  59,  48,  89,  82,  79,  68, 117, 126,  99, 104,
     177, 186, 167, 172, 157, 150, 139, 128, 233, 226, 255, 244, 197, 206, 211, 216,
     122, 113, 108, 103,  86,  93,  64,  75,  34,  41,  52,  63,  14,   5,  24,  19,
     202, 193, 220, 215, 230, 237, 240, 251, 146, 153, 132, 143, 190, 181, 168, 163 >>

\* mul13: multiplication by 13 in GF(2^8) modulo x^8 + x^4 + x^3 + x + 1.
mul13 ==
  <<
       0,  13,  26,  23,  52,  57,  46,  35, 104, 101, 114, 127,  92,  81,  70,  75,
     208, 221, 202, 199, 228, 233, 254, 243, 184, 181, 162, 175, 140, 129, 150, 155,
     187, 182, 161, 172, 143, 130, 149, 152, 211, 222, 201, 196, 231, 234, 253, 240,
     107, 102, 113, 124,  95,  82,  69,  72,   3,  14,  25,  20,  55,  58,  45,  32,
     109,  96, 119, 122,  89,  84,  67,  78,   5,   8,  31,  18,  49,  60,  43,  38,
     189, 176, 167, 170, 137, 132, 147, 158, 213, 216, 207, 194, 225, 236, 251, 246,
     214, 219, 204, 193, 226, 239, 248, 245, 190, 179, 164, 169, 138, 135, 144, 157,
       6,  11,  28,  17,  50,  63,  40,  37, 110,  99, 116, 121,  90,  87,  64,  77,
     218, 215, 192, 205, 238, 227, 244, 249, 178, 191, 168, 165, 134, 139, 156, 145,
      10,   7,  16,  29,  62,  51,  36,  41,  98, 111, 120, 117,  86,  91,  76,  65,
      97, 108, 123, 118,  85,  88,  79,  66,   9,   4,  19,  30,  61,  48,  39,  42,
     177, 188, 171, 166, 133, 136, 159, 146, 217, 212, 195, 206, 237, 224, 247, 250,
     183, 186, 173, 160, 131, 142, 153, 148, 223, 210, 197, 200, 235, 230, 241, 252,
     103, 106, 125, 112,  83,  94,  73,  68,  15,   2,  21,  24,  59,  54,  33,  44,
      12,   1,  22,  27,  56,  53,  34,  47, 100, 105, 126, 115,  80,  93,  74,  71,
     220, 209, 198, 203, 232, 229, 242, 255, 180, 185, 174, 163, 128, 141, 154, 151 >>

\* mul14: multiplication by 14 in GF(2^8) modulo x^8 + x^4 + x^3 + x + 1.
mul14 ==
  <<
       0,  14,  28,  18,  56,  54,  36,  42, 112, 126, 108,  98,  72,  70,  84,  90,
     224, 238, 252, 242, 216, 214, 196, 202, 144, 158, 140, 130, 168, 166, 180, 186,
     219, 213, 199, 201, 227, 237, 255, 241, 171, 165, 183, 185, 147, 157, 143, 129,
      59,  53,  39,  41,   3,  13,  31,  17,  75,  69,  87,  89, 115, 125, 111,  97,
     173, 163, 177, 191, 149, 155, 137, 135, 221, 211, 193, 207, 229, 235, 249, 247,
      77,  67,  81,  95, 117, 123, 105, 103,  61,  51,  33,  47,   5,  11,  25,  23,
     118, 120, 106, 100,  78,  64,  82,  92,   6,   8,  26,  20,  62,  48,  34,  44,
     150, 152, 138, 132, 174, 160, 178, 188, 230, 232, 250, 244, 222, 208, 194, 204,
      65,  79,  93,  83, 121, 119, 101, 107,  49,  63,  45,  35,   9,   7,  21,  27,
     161, 175, 189, 179, 153, 151, 133, 139, 209, 223, 205, 195, 233, 231, 245, 251,
     154, 148, 134, 136, 162, 172, 190, 176, 234, 228, 246, 248, 210, 220, 206, 192,
     122, 116, 102, 104,  66,  76,  94,  80,  10,   4,  22,  24,  50,  60,  46,  32,
     236, 226, 240, 254, 212, 218, 200, 198, 156, 146, 128, 142, 164, 170, 184, 182,
      12,   2,  16,  30,  52,  58,  40,  38, 124, 114,  96, 110,  68,  74,  88,  86,
      55,  57,  43,  37,  15,   1,  19,  29,  71,  73,  91,  85, 127, 113,  99, 109,
     215, 217, 203, 197, 239, 225, 243, 253, 167, 169, 187, 181, 159, 145, 131, 141 >>

\* table[i] used as an operand of ^ : undefined (i is NaN) becomes 0.
lookup(table, i) == IF i = NaN THEN 0 ELSE table[i + 1]

(***************************************************************************)
(* Helpers of class AES                                                    *)
(***************************************************************************)

\* array.join("") for an array of strings.
RECURSIVE join(_)
join(cells) == IF cells = << >> THEN << >> ELSE Head(cells) \o join(Tail(cells))

\* #rotateRight(array, shiftPos) on a row of the state matrix:
\* array.slice(shiftPos).concat(array.slice(0, shiftPos)).
rotateRight(array, shiftPos) ==
  LET s == shiftPos % 4
  IN << array[(s % 4) + 1], array[((1 + s) % 4) + 1],
        array[((2 + s) % 4) + 1], array[((3 + s) % 4) + 1] >>

\* #rotword(word)
rotword(word) == sliceFrom(word, 2) \o slice(word, 0, 2)

RECURSIVE subWordFrom(_, _)
subWordFrom(word, i) ==
  IF i >= Len(word) THEN << >>
  ELSE toHex2(sbox[parseInt(slice(word, i, i + 2)) + 1]) \o subWordFrom(word, i + 2)

\* #subWord(word): sbox[NaN] is undefined, and undefined.toString throws.
subWord(word) ==
  IF \E i \in 0..(Len(word) - 1) :
       i % 2 = 0 /\ parseInt(slice(word, i, i + 2)) = NaN
  THEN TypeError
  ELSE subWordFrom(word, 0)

RECURSIVE xorFrom(_, _, _)
xorFrom(value1, value2, j) ==
  IF j >= Len(value1) THEN << >>
  ELSE toHex2(BitXor(parseInt(slice(value1, j, j + 2)),
                     parseInt(slice(value2, j, j + 2))))
       \o xorFrom(value1, value2, j + 2)

\* #XOR(value1, value2): one output byte per two characters of value1.
XOR(value1, value2) == xorFrom(value1, value2, 0)

\* parseInt(rcon[k], 16) of "0x01", "0x02", ... (the prefix 0x is skipped).
rcon == << 1, 2, 4, 8, 16, 32, 64 >>

\* The body of the loop "for (let i = 8; i < 60; i++)" of #keyExpansion.
nextWord(w, i) ==
  LET temp == w[i]
      back == w[i - 7]
  IN IF i % 8 = 0 THEN
       LET sw == subWord(rotword(temp))
       IN IF sw = TypeError THEN TypeError
          ELSE XOR(toHex2(BitXor(parseInt(slice(sw, 0, 2)), rcon[i \div 8]))
                     \o sliceFrom(sw, 2),
                   back)
     ELSE IF i % 8 = 4 THEN
       LET sw == subWord(temp)
       IN IF sw = TypeError THEN TypeError ELSE XOR(sw, back)
     ELSE XOR(temp, back)

RECURSIVE expandFrom(_, _)
expandFrom(w, i) ==
  IF i = 60 THEN w
  ELSE LET word == nextWord(w, i)
       IN IF word = TypeError THEN TypeError
          ELSE expandFrom(Append(w, word), i + 1)

\* #keyExpansion(key): the 60 words, or TypeError.
keyExpansion(key) ==
  expandFrom([i \in 1..8 |-> slice(key, (i - 1) * 8, (i - 1) * 8 + 8)], 8)

RECURSIVE stringToHexFrom(_, _)
stringToHexFrom(string, i) ==
  IF i > Len(string) THEN << >>
  ELSE toHex2(string[i]) \o stringToHexFrom(string, i + 1)

\* #stringToHex(string) for code units <= 255.
stringToHex(string) == stringToHexFrom(string, 1)

\* String.fromCharCode(parseInt(byte, 16)): NaN gives the code unit 0.
fromCharCode(v) == IF v = NaN THEN 0 ELSE v

\* #hexToString(hex): hex.match(/.{2}/g) is null when hex has fewer than two
\* characters, and null.map throws; a trailing odd character is dropped.
hexToString(hex) ==
  IF Len(hex) < 2 THEN TypeError
  ELSE [n \in 1..(Len(hex) \div 2) |->
          fromCharCode(parseInt(slice(hex, 2 * (n - 1), 2 * n)))]

RECURSIVE repeat(_, _)
repeat(s, count) == IF count = 0 THEN << >> ELSE s \o repeat(s, count - 1)

\* #padTo16Bytes with the padding computed modulo the block size: a text
\* that already fills its blocks gets no padding.
padTo16BytesAligned(hexStr) ==
  LET blockSize == 16
      hexBytesLength == Len(hexStr) \div 2
      paddingLength == (blockSize - (hexBytesLength % blockSize)) % blockSize
      paddingHex == toHex2(paddingLength)
  IN hexStr \o repeat(paddingHex, paddingLength)

\* #padTo16Bytes(hexStr) for a string of even length.
padTo16Bytes(hexStr) ==
  LET blockSize == 16
      hexBytesLength == Len(hexStr) \div 2
      paddingLength == blockSize - (hexBytesLength % blockSize)
      paddingHex == toHex2(paddingLength)
  IN hexStr \o repeat(paddingHex, paddingLength)

\* state[row][col]
at(state, row, col) == state[row + 1][col + 1]

\* The 4x4 matrix whose cell [row][col] is cell(row, col).
matrixOf(cell(_, _)) ==
  << << cell(0, 0), cell(0, 1), cell(0, 2), cell(0, 3) >>,
     << cell(1, 0), cell(1, 1), cell(1, 2), cell(1, 3) >>,
     << cell(2, 0), cell(2, 1), cell(2, 2), cell(2, 3) >>,
     << cell(3, 0), cell(3, 1), cell(3, 2), cell(3, 3) >> >>

\* #addRoundKey(state, expandedKey, round)
addRoundKey(state, expandedKey, round) ==
  LET cell(row, col) ==
        XOR(at(state, row, col),
            slice(expandedKey[round * 4 + col + 1], 2 * row, 2 * row + 2))
  IN matrixOf(cell)

\* Some cell of the state reads as NaN.
hasNaN(state) ==
  \E row \in 0..3, col \in 0..3 : parseInt(at(state, row, col)) = NaN

\* #substituteBytes(state)
substituteBytes(state) ==
  IF hasNaN(state) THEN TypeError
  ELSE LET cell(row, col) == toHex2(sbox[parseInt(at(state, row, col)) + 1])
       IN matrixOf(cell)

\* #inverseSubstituteBytes(state)
inverseSubstituteBytes(state) ==
  IF hasNaN(state) THEN TypeError
  ELSE LET cell(row, col) == toHex2(invSbox[parseInt(at(state, row, col)) + 1])
       IN matrixOf(cell)

\* #shiftRows(state)
shiftRows(state) ==
  << rotateRight(state[1], 0), rotateRight(state[2], 1),
     rotateRight(state[3], 2), rotateRight(state[4], 3) >>

\* #inverseShiftRows(state)
inverseShiftRows(state) ==
  << rotateRight(state[1], 4 - 0), rotateRight(state[2], 4 - 1),
     rotateRight(state[3], 4 - 2), rotateRight(state[4], 4 - 3) >>

\* #mixColumns(state)
mixColumns(state) ==
  LET cell(row, col) ==
     LET s0 == parseInt(at(state, 0, col))
         s1 == parseInt(at(state, 1, col))
         s2 == parseInt(at(state, 2, col))
         s3 == parseInt(at(state, 3, col))
     IN toHex2(
          CASE row = 0 ->
                 BitXor(BitXor(BitXor(lookup(mul2, s0), lookup(mul3, s1)), s2), s3)
            [] row = 1 ->
                 BitXor(BitXor(BitXor(s0, lookup(mul2, s1)), lookup(mul3, s2)), s3)
            [] row = 2 ->
                 BitXor(BitXor(BitXor(s0, s1), lookup(mul2, s2)), lookup(mul3, s3))
            [] row = 3 ->
                 BitXor(BitXor(BitXor(lookup(mul3, s0), s1), s2), lookup(mul2, s3)))
  IN matrixOf(cell)

\* #inverseMixColumns(state)
inverseMixColumns(state) ==
  LET cell(row, col) ==
     LET s0 == parseInt(at(state, 0, col))
         s1 == parseInt(at(state, 1, col))
         s2 == parseInt(at(state, 2, col))
         s3 == parseInt(at(state, 3, col))
     IN toHex2(
          CASE row = 0 ->
                 BitXor(BitXor(BitXor(lookup(mul14, s0), lookup(mul11, s1)),
                               lookup(mul13, s2)), lookup(mul9, s3))
            [] row = 1 ->
                 BitXor(BitXor(BitXor(lookup(mul9, s0), lookup(mul14, s1)),
                               lookup(mul11, s2)), lookup(mul13, s3))
            [] row = 2 ->
                 BitXor(BitXor(BitXor(lookup(mul13, s0), lookup(mul9, s1)),
                               lookup(mul14, s2)), lookup(mul11, s3))
            [] row = 3 ->
                 BitXor(BitXor(BitXor(lookup(mul11, s0), lookup(mul13, s1)),
                               lookup(mul9, s2)), lookup(mul14, s3)))
  IN matrixOf(cell)

\* #xorWithIV(state, iv)
xorWithIV(state, iv) ==
  LET cell(i, j) ==
        toHex2(BitXor(parseInt(at(iv, i, j)), parseInt(at(state, i, j))))
  IN matrixOf(cell)

\* The bytes array of #removePadding.
hexBytes(hexString) ==
  [n \in 1..((Len(hexString) + 1) \div 2) |->
     parseInt(slice(hexString, 2 * (n - 1), 2 * n))]

\* bytes.slice(0, bytes.length - paddingLength): a NaN or undefined padding
\* length gives the end 0, a negative end counts from the end of the array.
sliceEnd(length, paddingLength) ==
  IF paddingLength = NaN THEN 0
  ELSE LET end == length - paddingLength
       IN IF end < 0 THEN Max(length + end, 0) ELSE Min(end, length)

\* #removePadding(hexString)
removePadding(hexString) ==
  LET bytes == hexBytes(hexString)
      paddingLength == IF Len(bytes) = 0 THEN NaN ELSE bytes[Len(bytes)]
      unpaddedBytes == SubSeq(bytes, 1, sliceEnd(Len(bytes), paddingLength))
  IN join([n \in 1..Len(unpaddedBytes) |-> byteToHex(unpaddedBytes[n])])

(***************************************************************************)
(* #encryptWithIV and #decryptWithIV, one loop iteration at a time         *)
(***************************************************************************)

\* "converting iv to matrix", and block to matrix in #encryptWithIV:
\* column-major, cell [i][j] is byte j * 4 + i.
columnMajor(hex) ==
  LET cell(i, j) ==
        LET bytePosition == (j * 4 + i) * 2
        IN padStart2(slice(hex, bytePosition, bytePosition + 2))
  IN matrixOf(cell)

\* block to matrix in #decryptWithIV, and the update of ivMatrix there:
\* row-major, cell [row][cols] is byte row * 4 + cols, not padded.
rowMajor(block) ==
  LET cell(row, cols) ==
        slice(block, (row * 4 + cols) * 2, (row * 4 + cols) * 2 + 2)
  IN matrixOf(cell)

\* matrix.flat().join(""): the rows one after the other.
flatJoin(matrix) ==
  join([n \in 1..16 |-> at(matrix, (n - 1) \div 4, (n - 1) % 4)])

\* "plaintext += matrix[j][i]" for i, then j: the columns one after the other.
columnJoin(matrix) ==
  join([n \in 1..16 |-> at(matrix, (n - 1) % 4, (n - 1) \div 4)])

\* One round of the loop "for (let round = 1; round <= 14; round++)".
encryptRound(matrix, expanded_key, round) ==
  LET subbed == substituteBytes(matrix)
      shifted == shiftRows(subbed)
      mixed == IF round # 14 THEN mixColumns(shifted) ELSE shifted
  IN IF subbed = TypeError THEN TypeError
     ELSE addRoundKey(mixed, expanded_key, round)

RECURSIVE encryptRounds(_, _, _)
encryptRounds(matrix, expanded_key, round) ==
  IF matrix = TypeError \/ round > 14 THEN matrix
  ELSE encryptRounds(encryptRound(matrix, expanded_key, round),
                     expanded_key, round + 1)

\* The body of the block loop of #encryptWithIV up to the final matrix.
encryptBlock(key, ivMatrix, block) ==
  LET expanded_key == keyExpansion(key)
      matrix == xorWithIV(columnMajor(block), ivMatrix)
  IN IF expanded_key = TypeError THEN TypeError
     ELSE encryptRounds(addRoundKey(matrix, expanded_key, 0), expanded_key, 1)

\* One round of the loop "for (let round = 13; round >= 0; round--)".
decryptRound(matrix, expanded_key, round) ==
  LET subbed == inverseSubstituteBytes(inverseShiftRows(matrix))
      keyed == addRoundKey(subbed, expanded_key, round)
  IN IF subbed = TypeError THEN TypeError
     ELSE IF round # 0 THEN inverseMixColumns(keyed) ELSE keyed

RECURSIVE decryptRounds(_, _, _)
decryptRounds(matrix, expanded_key, round) ==
  IF matrix = TypeError \/ round < 0 THEN matrix
  ELSE decryptRounds(decryptRound(matrix, expanded_key, round),
                     expanded_key, round - 1)

\* The body of the block loop of #decryptWithIV up to the final matrix.
decryptBlock(expanded_key, ivMatrix, block) ==
  LET matrix == decryptRounds(addRoundKey(rowMajor(block), expanded_key, 14),
                              expanded_key, 13)
  IN IF matrix = TypeError THEN TypeError ELSE xorWithIV(matrix, ivMatrix)

\* The chain value taken from the plaintext block instead of the cipher
\* matrix.
encryptChainPlain(matrix, block) == columnMajor(block)

\* "ivMatrix = matrix": the chain value #encryptWithIV carries to the next
\* block is the cipher matrix it has just emitted.
encryptChain(matrix, block) == matrix

\* The chain value taken from the block just decrypted instead of the
\* ciphertext block.
decryptChainPlain(matrix, block) == matrix

\* The chain value taken from the ciphertext block and the block just
\* decrypted together, as a propagating chain would.
decryptChainPropagating(matrix, block) == xorWithIV(matrix, rowMajor(block))

\* "Update IV with the current ciphertext block": the chain value
\* #decryptWithIV carries to the next block.
decryptChain(matrix, block) == rowMajor(block)

\* The loop condition of both block loops: blockIndex < length / 32, where the
\* quotient is a fraction when length is no multiple of 32.
inLoop(blockIndex, length) == blockIndex * 32 < length

\* The block of a hex text that the loops slice out.
blockAt(hex, blockIndex) == slice(hex, blockIndex * 32, (blockIndex + 1) * 32)

\* The block loop of #encryptWithIV from blockIndex on: the cipherText, or
\* TypeError.
RECURSIVE encryptLoop(_, _, _, _, _)
encryptLoop(key, ivMatrix, state, blockIndex, cipherText) ==
  IF ~inLoop(blockIndex, Len(state)) THEN cipherText
  ELSE LET block == blockAt(state, blockIndex)
           matrix == encryptBlock(key, ivMatrix, block)
       IN IF matrix = TypeError THEN TypeError
          ELSE encryptLoop(key, encryptChain(matrix, block), state,
                           blockIndex + 1, cipherText \o flatJoin(matrix))

\* #encryptWithIV(key, iv, message)
encryptWithIV(key, iv, message) ==
  encryptLoop(key, columnMajor(iv), padTo16Bytes(stringToHex(message)), 0, << >>)

\* The block loop of #decryptWithIV from blockIndex on: the plaintext before
\* the padding is removed, or TypeError.
RECURSIVE decryptLoop(_, _, _, _, _)
decryptLoop(expanded_key, ivMatrix, cipherMessage, blockIndex, plaintext) ==
  IF ~inLoop(blockIndex, Len(cipherMessage)) THEN plaintext
  ELSE LET block == blockAt(cipherMessage, blockIndex)
           matrix == decryptBlock(expanded_key, ivMatrix, block)
       IN IF matrix = TypeError THEN TypeError
          ELSE decryptLoop(expanded_key, decryptChain(matrix, block),
                           cipherMessage, blockIndex + 1,
                           plaintext \o columnJoin(matrix))

\* #decryptWithIV(key, iv, cipherMessage)
decryptWithIV(key, iv, cipherMessage) ==
  LET expanded_key == keyExpansion(key)
      plaintext == decryptLoop(expanded_key, columnMajor(iv), cipherMessage,
                               0, << >>)
  IN IF expanded_key = TypeError \/ plaintext = TypeError THEN TypeError
     ELSE removePadding(plaintext)

(***************************************************************************)
(* Inputs                                                                  *)
(***************************************************************************)

\* Messages have 16 * q + r code units, q in 0..MaxFullBlocks, r in Residues.
MaxFullBlocks == 2

Residues == { 0, 1, 15 }

\* The message of n code units 0x00, 0x11, 0x22, ..., 0xff, 0x10, 0x21, ...
\* (its first sixteen are the FIPS-197 example plaintext).
messageOf(n) == [i \in 1..n |-> (17 * (i - 1)) % 256]

Messages ==
  { messageOf(16 * q + r) : q \in 0..MaxFullBlocks, r \in Residues }

\* The hex text of the bytes f(0), f(1), ..., f(n - 1).
hexOf(n, f(_)) == stringToHex([i \in 1..n |-> f(i - 1)])

\* Keys as #generateKey returns them: 64 hex digits.  The first is the
\* FIPS-197 appendix C.3 key 00 01 02 ... 1f.
fipsByte(i) == i

otherKeyByte(i) == (7 * i + 3) % 256

Keys == { hexOf(32, fipsByte), hexOf(32, otherKeyByte) }

\* IVs as crypto.randomBytes(16).toString("hex") returns them.
zeroByte(i) == 0

otherIvByte(i) == (13 * i + 1) % 256

IVs == { hexOf(16, zeroByte), hexOf(16, otherIvByte) }

\* hex with bit `bit` of byte `byte` inverted.
flipBit(hex, byte, bit) ==
  LET old == parseInt(slice(hex, 2 * byte, 2 * byte + 2))
      mask == 2 ^ bit
      new == IF (old \div mask) % 2 = 1 THEN old - mask ELSE old + mask
  IN slice(hex, 0, 2 * byte) \o toHex2(new) \o sliceFrom(hex, 2 * byte + 2)

\* hex with the character at position pos (from 0) replaced by c.
setChar(hex, pos, c) ==
  slice(hex, 0, pos) \o << c >> \o sliceFrom(hex, pos + 1)

\* Byte offsets in a block and bits in a byte at which a caller's copy of a
\* ciphertext or IV is altered.
TamperBytes == { 1, 15 }

TamperBits == { 0, 4 }

\* Ciphertexts a caller may hand to AES_Decrypt in place of cipherText: one
\* bit inverted in any block but the last.
tampered(cipherText) ==
  { flipBit(cipherText, 16 * i + k, b) :
      i \in 0..((Len(cipherText) \div 32) - 2), k \in TamperBytes, b \in TamperBits }

\* Cut short, not hex, or empty.
malformed(cipherText) ==
  { slice(cipherText, 0, Len(cipherText) - 1),
    slice(cipherText, 0, Len(cipherText) - 16),
    setChar(cipherText, 0, X),
    setChar(cipherText, 3, X),
    << >> }

\* Keys that are not 64 hex digits.
badKeys(key) ==
  { slice(key, 0, 62), key \o << 0, 0 >>, setChar(key, 0, X), setChar(key, 56, X) }

\* IVs with one bit of the last byte inverted, and IVs that are not 32 hex
\* digits.
otherIVs(iv) ==
  { flipBit(iv, 15, b) : b \in TamperBits }
    \cup { slice(iv, 0, 30), setChar(iv, 30, X) }

\* The arguments <<key, iv, encryptedMessage>> of AES_Decrypt that the model
\* tries for an instance that encrypted a message to cipherText.
DecryptInputs(key, iv, cipherText) ==
  { << key, iv, c >> : c \in { cipherText } \cup tampered(cipherText)
                                \cup malformed(cipherText) }
    \cup { << k, iv, cipherText >> : k \in badKeys(key) }
    \cup { << key, v, cipherText >> : v \in otherIVs(iv) }
    \cup { << k, v, cipherText >> : k \in Keys \ { key }, v \in IVs \ { iv } }

(***************************************************************************)
(* The state machine: one AES instance and the call it is running          *)
(***************************************************************************)

VARIABLES
  key,            \* this.key
  iv,             \* this.iv
  pc,             \* "idle", or where the running call is
  call,           \* the last call begun: "none", "AES_Encrypt", "AES_Decrypt"
  message,        \* AES_Encrypt: the argument
  state,          \* #encryptWithIV: the padded hex text
  cipherText,     \* #encryptWithIV: the blocks emitted so far
  argKey,         \* AES_Decrypt: the argument key
  argIv,          \* AES_Decrypt: the argument iv
  cipherMessage,  \* AES_Decrypt: the argument encryptedMessage
  expanded_key,   \* #decryptWithIV: the round keys
  plaintext,      \* #decryptWithIV: the blocks emitted so far
  blockIndex,     \* the loop counter of the running call
  ivMatrix,       \* the chain value of the running call
  chainLog,       \* history: the chain value each processed block was given
  outcome,        \* how the last call ended
  earlier         \* whether a call on this instance has thrown so far

\* The application around the cipher: its collections, and the calls of its
\* services that are in progress.
VARIABLES
  users,          \* the User collection
  files,          \* the File collection
  sharings,       \* the Sharing collection
  reads,          \* what the last download read with fs.readFileSync
  mail,           \* the addresses emailService.sendEmail has delivered to
  uniqueIndex,    \* the fields of User that carry a unique index
  calls           \* the service calls in progress and ended

aesVars ==
  << key, iv, pc, call, message, state, cipherText, argKey, argIv,
     cipherMessage, expanded_key, plaintext, blockIndex, ivMatrix, chainLog,
     outcome, earlier >>

serviceVars == << users, files, sharings, reads, mail, uniqueIndex, calls >>

vars == << aesVars, serviceVars >>

\* No service of the application is running, and its collections are empty.
noService ==
  /\ users = { }
  /\ files = { }
  /\ sharings = << >>
  /\ reads = { }
  /\ mail = { }
  /\ uniqueIndex = { }
  /\ calls = << >>

encryptFrame == << message, state, cipherText >>

decryptFrame == << argKey, argIv, cipherMessage, expanded_key, plaintext >>

noOutcome == [kind |-> "none", value |-> << >>]

returned(value) == [kind |-> "returned", value |-> value]

threw == [kind |-> "threw", value |-> << >>]

\* No call has been made on the instance.
noCalls == [threw |-> FALSE]

\* A call on the instance ended in an exception.
afterThrow(log) == [log EXCEPT !.threw = TRUE]

\* new AES(): the constructor.
Init ==
  /\ key \in Keys
  /\ iv \in IVs
  /\ pc = "idle"
  /\ call = "none"
  /\ message = << >>
  /\ state = << >>
  /\ cipherText = << >>
  /\ argKey = << >>
  /\ argIv = << >>
  /\ cipherMessage = << >>
  /\ expanded_key = << >>
  /\ plaintext = << >>
  /\ blockIndex = 0
  /\ ivMatrix = << >>
  /\ chainLog = << >>
  /\ outcome = noOutcome
  /\ earlier = noCalls
  /\ noService

\* A call of AES_Encrypt(message): the argument is bound, and the frames of
\* the earlier calls are gone.
AES_Encrypt(m) ==
  /\ pc = "idle"
  /\ pc' = "AES_Encrypt"
  /\ call' = "AES_Encrypt"
  /\ message' = m
  /\ state' = << >>
  /\ cipherText' = << >>
  /\ ivMatrix' = << >>
  /\ blockIndex' = 0
  /\ chainLog' = << >>
  /\ outcome' = noOutcome
  /\ argKey' = << >>
  /\ argIv' = << >>
  /\ cipherMessage' = << >>
  /\ expanded_key' = << >>
  /\ plaintext' = << >>
  /\ UNCHANGED << key, iv, earlier >>
  /\ UNCHANGED serviceVars

\* #encryptWithIV(this.key, this.iv, message) up to its block loop: the
\* message to hex, the padding, the iv matrix.
EncryptSetup ==
  /\ pc = "AES_Encrypt"
  /\ pc' = "encryptLoop"
  /\ state' = padTo16Bytes(stringToHex(message))
  /\ ivMatrix' = columnMajor(iv)
  /\ cipherText' = << >>
  /\ UNCHANGED << key, iv, call, message, blockIndex, chainLog, outcome,
                  earlier >>
  /\ UNCHANGED decryptFrame
  /\ UNCHANGED serviceVars

\* One iteration of the block loop of #encryptWithIV.
EncryptBlock ==
  /\ pc = "encryptLoop"
  /\ inLoop(blockIndex, Len(state))
  /\ LET block == blockAt(state, blockIndex)
         matrix == encryptBlock(key, ivMatrix, block)
     IN IF matrix = TypeError
        THEN /\ pc' = "idle"
             /\ outcome' = threw
             /\ earlier' = afterThrow(earlier)
             /\ UNCHANGED << cipherText, ivMatrix, blockIndex, chainLog >>
        ELSE /\ cipherText' = cipherText \o flatJoin(matrix)
             /\ ivMatrix' = encryptChain(matrix, block)
             /\ blockIndex' = blockIndex + 1
             /\ chainLog' = Append(chainLog, ivMatrix)
             /\ UNCHANGED << pc, outcome, earlier >>
  /\ UNCHANGED << key, iv, call, message, state >>
  /\ UNCHANGED decryptFrame
  /\ UNCHANGED serviceVars

\* "return cipherText" of #encryptWithIV and the return of AES_Encrypt.
EncryptReturn ==
  /\ pc = "encryptLoop"
  /\ ~inLoop(blockIndex, Len(state))
  /\ pc' = "idle"
  /\ outcome' = returned(cipherText)
  /\ UNCHANGED << key, iv, call, blockIndex, ivMatrix, chainLog, earlier >>
  /\ UNCHANGED encryptFrame
  /\ UNCHANGED decryptFrame
  /\ UNCHANGED serviceVars

\* AES_Decrypt keeping the key and the IV it was given as the instance's own.
AES_DecryptKeepsArgs(k, v, c) ==
  /\ pc = "idle"
  /\ pc' = "AES_Decrypt"
  /\ call' = "AES_Decrypt"
  /\ argKey' = k
  /\ argIv' = v
  /\ cipherMessage' = c
  /\ expanded_key' = << >>
  /\ plaintext' = << >>
  /\ ivMatrix' = << >>
  /\ blockIndex' = 0
  /\ chainLog' = << >>
  /\ outcome' = noOutcome
  /\ key' = k
  /\ iv' = v
  /\ UNCHANGED earlier
  /\ UNCHANGED encryptFrame
  /\ UNCHANGED serviceVars

\* A call of AES_Decrypt(key, iv, encryptedMessage): the arguments are bound.
AES_Decrypt(k, v, c) ==
  /\ pc = "idle"
  /\ pc' = "AES_Decrypt"
  /\ call' = "AES_Decrypt"
  /\ argKey' = k
  /\ argIv' = v
  /\ cipherMessage' = c
  /\ expanded_key' = << >>
  /\ plaintext' = << >>
  /\ ivMatrix' = << >>
  /\ blockIndex' = 0
  /\ chainLog' = << >>
  /\ outcome' = noOutcome
  /\ UNCHANGED << key, iv, earlier >>
  /\ UNCHANGED encryptFrame
  /\ UNCHANGED serviceVars

\* #decryptWithIV(key, iv, cipherMessage) up to its block loop: the iv matrix
\* and the key expansion, which may throw.
DecryptSetup ==
  /\ pc = "AES_Decrypt"
  /\ ivMatrix' = columnMajor(argIv)
  /\ expanded_key' = keyExpansion(argKey)
  /\ IF expanded_key' = TypeError
     THEN pc' = "idle" /\ outcome' = threw /\ earlier' = afterThrow(earlier)
     ELSE pc' = "decryptLoop" /\ outcome' = outcome /\ earlier' = earlier
  /\ UNCHANGED << key, iv, call, argKey, argIv, cipherMessage, plaintext,
                  blockIndex, chainLog >>
  /\ UNCHANGED encryptFrame
  /\ UNCHANGED serviceVars

\* One iteration of the block loop of #decryptWithIV.
DecryptBlock ==
  /\ pc = "decryptLoop"
  /\ inLoop(blockIndex, Len(cipherMessage))
  /\ LET block == blockAt(cipherMessage, blockIndex)
         matrix == decryptBlock(expanded_key, ivMatrix, block)
     IN IF matrix = TypeError
        THEN /\ pc' = "idle"
             /\ outcome' = threw
             /\ earlier' = afterThrow(earlier)
             /\ UNCHANGED << plaintext, ivMatrix, blockIndex, chainLog >>
        ELSE /\ plaintext' = plaintext \o columnJoin(matrix)
             /\ ivMatrix' = decryptChain(matrix, block)
             /\ blockIndex' = blockIndex + 1
             /\ chainLog' = Append(chainLog, ivMatrix)
             /\ UNCHANGED << pc, outcome, earlier >>
  /\ UNCHANGED << key, iv, call, argKey, argIv, cipherMessage, expanded_key >>
  /\ UNCHANGED encryptFrame
  /\ UNCHANGED serviceVars

\* "return this.#removePadding(plaintext)" and, in AES_Decrypt,
\* "return this.#hexToString(decipheredMessage)".
DecryptReturn ==
  /\ pc = "decryptLoop"
  /\ ~inLoop(blockIndex, Len(cipherMessage))
  /\ LET decipheredMessage == removePadding(plaintext)
         text == hexToString(decipheredMessage)
     IN /\ outcome' = IF text = TypeError THEN threw ELSE returned(text)
        /\ earlier' = IF text = TypeError THEN afterThrow(earlier) ELSE earlier
  /\ pc' = "idle"
  /\ UNCHANGED << key, iv, call, blockIndex, ivMatrix, chainLog >>
  /\ UNCHANGED encryptFrame
  /\ UNCHANGED decryptFrame
  /\ UNCHANGED serviceVars

\* The last call was an AES_Encrypt that returned: its cipherText is what a
\* caller stores and later hands, with key and iv, to AES_Decrypt.
encrypted == pc = "idle" /\ cipherText # << >>

Next ==
  \/ \E m \in Messages : AES_Encrypt(m)
  \/ EncryptSetup
  \/ EncryptBlock
  \/ EncryptReturn
  \/ /\ encrypted
     /\ \E args \in DecryptInputs(key, iv, cipherText) :
          AES_Decrypt(args[1], args[2], args[3])
  \/ DecryptSetup
  \/ DecryptBlock
  \/ DecryptReturn

Spec == Init /\ [][Next]_vars

(***************************************************************************)
(* The services: documents, queries and calls                              *)
(***************************************************************************)

\* No AES instance is in use: the services are modelled on their own.
noInstance ==
  /\ key = << >>
  /\ iv = << >>
  /\ pc = "idle"
  /\ call = "none"
  /\ message = << >>
  /\ state = << >>
  /\ cipherText = << >>
  /\ argKey = << >>
  /\ argIv = << >>
  /\ cipherMessage = << >>
  /\ expanded_key = << >>
  /\ plaintext = << >>
  /\ blockIndex = 0
  /\ ivMatrix = << >>
  /\ chainLog = << >>
  /\ outcome = noOutcome
  /\ earlier = noCalls

\* null, and the Query object that Model.findOne(...) gives a caller that
\* does not await it.
null == [kind |-> "null"]

Query == [kind |-> "Query"]

\* JavaScript truthiness of the values the services test with "!": null is
\* falsy; a document, a Query, an ObjectId and an object literal are truthy.
truthy(value) == value # null

\* The _id of the n-th document of a collection.
ObjectId(n) == [kind |-> "ObjectId", n |-> n]

\* email.split("@")[0]: the characters before the first "@".
RECURSIVE usernameOf(_)
usernameOf(email) ==
  IF email = << >> \/ Head(email) = "@" THEN << >>
  ELSE << Head(email) >> \o usernameOf(Tail(email))

\* new User({ email, username: email.split("@")[0], ... }), saved as the n-th
\* document.
UserDoc(n, email) ==
  [kind |-> "User", _id |-> ObjectId(n), email |-> email,
   username |-> usernameOf(email)]

\* new File({ ..., owner: loggedInUser.userId }), saved as the n-th document.
FileDoc(n, owner) == [kind |-> "File", _id |-> ObjectId(n), owner |-> owner]

\* new Sharing(object), saved as the n-th document: the schema's paths are
\* file, sharedWith and sharedBy; a key of the object that is no path of the
\* schema is dropped, and an array path that is not given is empty.
SharingDoc(n, object) ==
  [kind |-> "Sharing", _id |-> ObjectId(n), file |-> object.file,
   sharedWith |-> IF "sharedWith" \in DOMAIN object THEN object.sharedWith
                  ELSE << >>,
   sharedBy |-> object.sharedBy]

\* The first document of the collection that satisfies the filter, or null.
firstOf(collection, hits) ==
  IF hits = { } THEN null
  ELSE collection[CHOOSE i \in hits : \A j \in hits : i <= j]

\* Model.findById(id)
findById(collection, id) ==
  firstOf(collection, { i \in 1..Len(collection) : collection[i]._id = id })

\* User.findOne({ email })
findUserByEmail(collection, email) ==
  firstOf(collection,
          { i \in 1..Len(collection) : collection[i].email = email })

\* User.findOne({ $or: [{ email }, { username }] })
findUserByEmailOrUsername(collection, email, username) ==
  firstOf(collection,
          { i \in 1..Len(collection) :
              \/ collection[i].email = email
              \/ collection[i].username = username })

\* Sharing.findOne({ file })
findSharingByFile(collection, file) ==
  firstOf(collection,
          { i \in 1..Len(collection) : collection[i].file = file })

\* The elements of an array, as a set.
elements(array) == { array[i] : i \in 1..Len(array) }

\* The number of service calls that can be in progress at once.
MaxRequests == 2

Requests == 1..MaxRequests

\* A call that has not returned.
noResult == [kind |-> "none"]

\* A slot in which no call has been made.
idleCall ==
  [op |-> "none", pc |-> "idle", args |-> [none |-> TRUE],
   locals |-> [none |-> TRUE], result |-> noResult]

\* A call of a service: it runs up to its first await.
begin(p, op, point, args) ==
  /\ calls[p].pc \in { "idle", "done" }
  /\ calls' = [calls EXCEPT
                 ![p] = [op |-> op, pc |-> point, args |-> args,
                         locals |-> [none |-> TRUE], result |-> noResult]]

\* The call in slot p is the service op, suspended at the await `point`.
awaiting(p, op, point) == calls[p].op = op /\ calls[p].pc = point

\* The call in slot p goes on to its next await, with these locals.
resume(p, point, locals) ==
  calls' = [calls EXCEPT ![p].pc = point, ![p].locals = locals]

\* The call in slot p returns the result.
return(p, result) ==
  calls' = [calls EXCEPT ![p].pc = "done", ![p].result = result]

(***************************************************************************)
(* File.service.js                                                         *)
(***************************************************************************)

\* The results the services return.
failure(text) == [kind |-> "result", success |-> FALSE, message |-> text]

success(text) == [kind |-> "result", success |-> TRUE, message |-> text]

\* The number of files uploaded.
MaxFiles == 1

\* The users of the application when files are handled: ann, bob and eve.
ann == << "a", "@", "x" >>

bob == << "b", "@", "x" >>

eve == << "e", "@", "x" >>

\* An address no user has.
nobody == << "n", "@", "x" >>

StoredUsers == << UserDoc(1, ann), UserDoc(2, bob), UserDoc(3, eve) >>

\* The payload of the session token of a stored user: loggedInUser.
LoggedInUsers ==
  { [userId |-> StoredUsers[i]._id, username |-> StoredUsers[i].username] :
      i \in 1..Len(StoredUsers) }

\* The file ids a request may carry: those of the files, and one of no file.
FileIds == { ObjectId(n) : n \in 1..(MaxFiles + 1) }

\* The email lists a request may carry.
EmailLists == { << bob >>, << bob, eve >>, << bob, nobody >> }

\* The user who uploads files and shares them.
Owners == { u \in LoggedInUsers : u.username = usernameOf(ann) }

fileFrame == << users, mail, uniqueIndex >>

\* uploadFile(file, encrypted, loggedInUser): the File document it saves.
uploadFile(loggedInUser) ==
  /\ Len(files) < MaxFiles
  /\ files' = Append(files, FileDoc(Len(files) + 1, loggedInUser.userId))
  /\ UNCHANGED << sharings, reads, calls >>
  /\ UNCHANGED fileFrame
  /\ UNCHANGED aesVars

\* "Sharing.findOne({ sharedWith: userId })" as downloadFile and
\* downloadNormalFile use it, without await: the Query, whatever the
\* collection holds.
SharingFindOne(userId) == Query

\* The test that guards both downloads.
unauthorized(file, userId) ==
  file.owner # userId /\ ~truthy(SharingFindOne(userId))

\* fs.readFileSync of the stored file and of the private key, for a user.
fileRead(file, userId) == [path |-> "file", of |-> file._id, by |-> userId]

keyRead(loggedInUser) ==
  [path |-> "private_key", of |-> loggedInUser.username,
   by |-> loggedInUser.userId]

\* rsa.decryptAESKey(file.encryptedKey, private_key) followed by AES_Decrypt:
\* the file's data under the owner's private key; under another private key
\* the unwrapping fails or gives another key.
decryptAESKey(file, loggedInUser) ==
  IF file.owner = loggedInUser.userId THEN { "data" }
  ELSE { "threw", "garbage" }

\* What a download returns.
download(data, file) == [kind |-> "data", data |-> data, fileName |-> file._id]

\* downloadFile(fileId, loggedInUser), up to "await File.findById(fileId)".
downloadFile(p, fileId, loggedInUser) ==
  /\ begin(p, "downloadFile", "File.findById",
           [fileId |-> fileId, loggedInUser |-> loggedInUser])
  /\ UNCHANGED << files, sharings, reads >>
  /\ UNCHANGED fileFrame
  /\ UNCHANGED aesVars

\* downloadFile from the file it found to its return.
downloadFileFound(p) ==
  /\ awaiting(p, "downloadFile", "File.findById")
  /\ LET loggedInUser == calls[p].args.loggedInUser
         file == findById(files, calls[p].args.fileId)
     IN IF ~truthy(file)
        THEN return(p, failure("File not found")) /\ UNCHANGED reads
        ELSE IF unauthorized(file, loggedInUser.userId)
        THEN return(p, failure("Unauthorized access")) /\ UNCHANGED reads
        ELSE /\ reads' = { fileRead(file, loggedInUser.userId),
                           keyRead(loggedInUser) }
             /\ \E data \in decryptAESKey(file, loggedInUser) :
                  return(p, IF data = "threw"
                            THEN failure("An error occurred while downloading the file")
                            ELSE download(data, file))
  /\ UNCHANGED << files, sharings >>
  /\ UNCHANGED fileFrame
  /\ UNCHANGED aesVars

\* downloadNormalFile(fileId, userId), up to "await File.findById(fileId)".
downloadNormalFile(p, fileId, userId) ==
  /\ begin(p, "downloadNormalFile", "File.findById",
           [fileId |-> fileId, userId |-> userId])
  /\ UNCHANGED << files, sharings, reads >>
  /\ UNCHANGED fileFrame
  /\ UNCHANGED aesVars

\* downloadNormalFile from the file it found to its return.
downloadNormalFileFound(p) ==
  /\ awaiting(p, "downloadNormalFile", "File.findById")
  /\ LET userId == calls[p].args.userId
         file == findById(files, calls[p].args.fileId)
     IN IF ~truthy(file)
        THEN return(p, failure("File not found")) /\ UNCHANGED reads
        ELSE IF unauthorized(file, userId)
        THEN return(p, failure("Unauthorized access")) /\ UNCHANGED reads
        ELSE /\ reads' = { fileRead(file, userId) }
             /\ return(p, download("data", file))
  /\ UNCHANGED << files, sharings >>
  /\ UNCHANGED fileFrame
  /\ UNCHANGED aesVars

\* What the map of updateShareList gives for an email no user has: the
\* object "{ success: false, message: ... }".
userNotFound(email) ==
  [kind |-> "result", success |-> FALSE, message |-> "User not found",
   email |-> email]

\* The array "users" of updateShareList: for each email the _id of its user,
\* or the object above.
shareTargets(collection, emails) ==
  [i \in 1..Len(emails) |->
     LET user == findUserByEmail(collection, emails[i])
     IN IF ~truthy(user) THEN userNotFound(emails[i]) ELSE user._id]

\* users.filter((user) => !user)
notFoundOf(found) == SelectSeq(found, LAMBDA user : ~truthy(user))

\* The elements of sharedWith are references to users: an array with another
\* element is rejected when the document is saved.
castable(found) == \A i \in 1..Len(found) : found[i].kind = "ObjectId"

\* sharingRecord.save() of a record that exists: its sharedWith is written.
saveSharedWith(collection, sharingRecord, found) ==
  [i \in 1..Len(collection) |->
     IF collection[i]._id = sharingRecord._id
     THEN [collection[i] EXCEPT !.sharedWith = found]
     ELSE collection[i]]

\* updateShareList(fileId, emails, userId), up to "await File.findById".
updateShareList(p, fileId, emails, userId) ==
  /\ begin(p, "updateShareList", "File.findById",
           [fileId |-> fileId, emails |-> emails, userId |-> userId])
  /\ UNCHANGED << files, sharings, reads >>
  /\ UNCHANGED fileFrame
  /\ UNCHANGED aesVars

\* updateShareList from the file it found to "await Sharing.findOne".
updateShareListFile(p) ==
  /\ awaiting(p, "updateShareList", "File.findById")
  /\ LET file == findById(files, calls[p].args.fileId)
     IN IF ~truthy(file)
        THEN return(p, failure("File not found"))
        ELSE resume(p, "Sharing.findOne", [file |-> file])
  /\ UNCHANGED << files, sharings, reads >>
  /\ UNCHANGED fileFrame
  /\ UNCHANGED aesVars

\* updateShareList from the sharing record it found to "await Promise.all".
updateShareListRecord(p) ==
  /\ awaiting(p, "updateShareList", "Sharing.findOne")
  /\ LET file == calls[p].locals.file
         sharingRecord == findSharingByFile(sharings, file._id)
     IN resume(p, "Promise.all",
               [file |-> file, sharingRecord |-> sharingRecord])
  /\ UNCHANGED << files, sharings, reads >>
  /\ UNCHANGED fileFrame
  /\ UNCHANGED aesVars

\* updateShareList from the users it found to "await sharingRecord.save()".
updateShareListUsers(p) ==
  /\ awaiting(p, "updateShareList", "Promise.all")
  /\ LET found == shareTargets(users, calls[p].args.emails)
         notFound == notFoundOf(found)
     IN IF Len(notFound) > 0
        THEN return(p, failure("Some users were not found"))
        ELSE resume(p, "sharingRecord.save",
                    [file |-> calls[p].locals.file,
                     sharingRecord |-> calls[p].locals.sharingRecord,
                     users |-> found])
  /\ UNCHANGED << files, sharings, reads >>
  /\ UNCHANGED fileFrame
  /\ UNCHANGED aesVars

\* updateShareList from the save to its return.
updateShareListSave(p) ==
  /\ awaiting(p, "updateShareList", "sharingRecord.save")
  /\ LET file == calls[p].locals.file
         sharingRecord == calls[p].locals.sharingRecord
         found == calls[p].locals.users
     IN IF truthy(sharingRecord)
        THEN IF castable(found)
             THEN /\ sharings' = saveSharedWith(sharings, sharingRecord, found)
                  /\ return(p, success("File shared successfully"))
             ELSE /\ sharings' = sharings
                  /\ return(p, failure("An error occurred while sharing the file"))
        ELSE /\ sharings' =
                  Append(sharings,
                         SharingDoc(Len(sharings) + 1,
                                    [file |-> file._id, sharedWIth |-> found,
                                     sharedBy |-> calls[p].args.userId]))
             /\ return(p, success("File shared successfully"))
  /\ UNCHANGED << files, reads >>
  /\ UNCHANGED fileFrame
  /\ UNCHANGED aesVars

\* Sharing.find({ sharedWith: userId }): the files of the records that hold
\* the user in sharedWith.
sharedFiles(collection, userId) ==
  { collection[i].file :
      i \in { j \in 1..Len(collection) :
                userId \in elements(collection[j].sharedWith) } }

\* getSharedFiles(userId), up to "await Sharing.find(...)".
getSharedFiles(p, userId) ==
  /\ begin(p, "getSharedFiles", "Sharing.find", [userId |-> userId])
  /\ UNCHANGED << files, sharings, reads >>
  /\ UNCHANGED fileFrame
  /\ UNCHANGED aesVars

\* getSharedFiles from the records it found to its return.
getSharedFilesFound(p) ==
  /\ awaiting(p, "getSharedFiles", "Sharing.find")
  /\ return(p, [kind |-> "result", success |-> TRUE,
                data |-> sharedFiles(sharings, calls[p].args.userId)])
  /\ UNCHANGED << files, sharings, reads >>
  /\ UNCHANGED fileFrame
  /\ UNCHANGED aesVars

\* The application with its users registered and no file uploaded yet.
InitFiles ==
  /\ noInstance
  /\ users = StoredUsers
  /\ files = << >>
  /\ sharings = << >>
  /\ reads = { }
  /\ mail = { }
  /\ uniqueIndex = { }
  /\ calls = [p \in Requests |-> idleCall]

NextFiles ==
  \/ \E loggedInUser \in Owners : uploadFile(loggedInUser)
  \/ \E p \in Requests, fileId \in FileIds, loggedInUser \in LoggedInUsers :
       downloadFile(p, fileId, loggedInUser)
  \/ \E p \in Requests : downloadFileFound(p)
  \/ \E p \in Requests, fileId \in FileIds, loggedInUser \in LoggedInUsers :
       downloadNormalFile(p, fileId, loggedInUser.userId)
  \/ \E p \in Requests : downloadNormalFileFound(p)
  \/ \E p \in Requests, fileId \in FileIds, emails \in EmailLists,
        loggedInUser \in Owners :
       updateShareList(p, fileId, emails, loggedInUser.userId)
  \/ \E p \in Requests : updateShareListFile(p)
  \/ \E p \in Requests : updateShareListRecord(p)
  \/ \E p \in Requests : updateShareListUsers(p)
  \/ \E p \in Requests : updateShareListSave(p)
  \/ \E p \in Requests, loggedInUser \in LoggedInUsers :
       getSharedFiles(p, loggedInUser.userId)
  \/ \E p \in Requests : getSharedFilesFound(p)

SpecFiles == InitFiles /\ [][NextFiles]_vars

(***************************************************************************)
(* User.service.js                                                         *)
(***************************************************************************)

\* The emails of the users to create: two with one username, and another.
NewEmails == { ann, << "a", "@", "y" >>, bob }

\* The unique indexes the User collection may carry.
UniqueIndexes == SUBSET { "email", "username" }

\* newUser.save() is rejected: a stored user has the new user's value in a
\* field that carries a unique index.
duplicateKey(collection, indexes, newUser) ==
  \E i \in 1..Len(collection), field \in indexes :
    collection[i][field] = newUser[field]

userFrame == << files, sharings, reads, uniqueIndex >>

\* createUser(user), up to "await User.findOne(...)".
createUser(p, email) ==
  /\ begin(p, "createUser", "User.findOne", [user |-> [email |-> email]])
  /\ UNCHANGED << users, mail >>
  /\ UNCHANGED userFrame
  /\ UNCHANGED aesVars

\* createUser from the user it looked for to "await emailService.sendEmail".
createUserFound(p) ==
  /\ awaiting(p, "createUser", "User.findOne")
  /\ LET email == calls[p].args.user.email
         existingUser ==
           findUserByEmailOrUsername(users, email, usernameOf(email))
     IN IF truthy(existingUser)
        THEN return(p, failure("User already exists"))
        ELSE resume(p, "sendEmail",
                    [newUser |-> [email |-> email,
                                  username |-> usernameOf(email)]])
  /\ UNCHANGED << users, mail >>
  /\ UNCHANGED userFrame
  /\ UNCHANGED aesVars

\* createUser from the welcome email, sent or failed, to "await
\* newUser.save()".
createUserMailed(p) ==
  /\ awaiting(p, "createUser", "sendEmail")
  /\ \E delivered \in BOOLEAN :
       IF delivered
       THEN /\ mail' = mail \cup { calls[p].args.user.email }
            /\ resume(p, "newUser.save", calls[p].locals)
       ELSE /\ mail' = mail
            /\ return(p, failure("Invalid Email. Please enter a valid email address"))
  /\ UNCHANGED users
  /\ UNCHANGED userFrame
  /\ UNCHANGED aesVars

\* createUser from the save, done or rejected, to its return.
createUserSaved(p) ==
  /\ awaiting(p, "createUser", "newUser.save")
  /\ IF duplicateKey(users, uniqueIndex, calls[p].locals.newUser)
     THEN /\ users' = users
          /\ return(p, failure("E11000 duplicate key error"))
     ELSE /\ users' = Append(users, UserDoc(Len(users) + 1,
                                            calls[p].args.user.email))
          /\ return(p, success("User created successfully"))
  /\ UNCHANGED mail
  /\ UNCHANGED userFrame
  /\ UNCHANGED aesVars

\* The application with no user yet.
InitUsers ==
  /\ noInstance
  /\ users = << >>
  /\ files = << >>
  /\ sharings = << >>
  /\ reads = { }
  /\ mail = { }
  /\ uniqueIndex \in UniqueIndexes
  /\ calls = [p \in Requests |-> idleCall]

NextUsers ==
  \/ \E p \in Requests, email \in NewEmails : createUser(p, email)
  \/ \E p \in Requests : createUserFound(p)
  \/ \E p \in Requests : createUserMailed(p)
  \/ \E p \in Requests : createUserSaved(p)

SpecUsers == InitUsers /\ [][NextUsers]_vars

(***************************************************************************)
(* Properties                                                              *)
(***************************************************************************)

\* A call of AES_Decrypt has ended (it returned or threw).
decryptEnded == call = "AES_Decrypt" /\ pc = "idle"

\* A call of AES_Decrypt has run its block loop to the end, so that
\* plaintext is the whole decrypted output, padding included.
decryptedAll ==
  /\ call = "AES_Decrypt"
  /\ expanded_key # << >>
  /\ expanded_key # TypeError
  /\ pc \in { "decryptLoop", "idle" }
  /\ ~inLoop(blockIndex, Len(cipherMessage))

\* Every character is a hex digit and they pair up into bytes.
isHex(s) == Len(s) % 2 = 0 /\ \A n \in 1..Len(s) : s[n] \in 0..15

\* C1 (as claimed): AES_Decrypt, given the instance's key and IV and the
\* ciphertext AES_Encrypt produced for a message, returns that message,
\* whatever the length of the message, the empty message included.
RoundTrip ==
  (decryptEnded /\ argKey = key /\ argIv = iv /\ cipherMessage = cipherText)
    => outcome = returned(message)

\* The FIPS-197 appendix C.3 plaintext block and ciphertext block, as hex.
fipsPlainByte(i) == 17 * i

fipsPlain == hexOf(16, fipsPlainByte)

fipsCipherBytes ==
  << 142, 162, 183, 202, 81, 103, 69, 191, 234, 252, 73, 144, 75, 73, 96, 137 >>

fipsCipherByte(i) == fipsCipherBytes[i + 1]

fipsCipher == hexOf(16, fipsCipherByte)

\* The encryption has emitted its first block for the FIPS-197 key, the zero
\* IV and a message that begins with the FIPS-197 plaintext block.
fipsCase ==
  /\ call = "AES_Encrypt"
  /\ key = hexOf(32, fipsByte)
  /\ iv = hexOf(16, zeroByte)
  /\ blockAt(state, 0) = fipsPlain
  /\ Len(cipherText) >= 32

\* C2 (as claimed): known answer.  Under the FIPS-197 AES-256 key and an
\* all-zero IV, the first ciphertext block for the plaintext block
\* 00112233445566778899aabbccddeeff is 8ea2b7ca516745bfeafc49904b496089,
\* byte for byte in that order.
KnownAnswer == fipsCase => blockAt(cipherText, 0) = fipsCipher

\* The pad length #removePadding reads: the last byte of the output.
padLength == parseInt(slice(plaintext, Len(plaintext) - 2, Len(plaintext)))

\* The pad length is 0, above 16, or above the number of decrypted bytes.
invalidPadding ==
  /\ decryptedAll
  /\ Len(plaintext) >= 2
  /\ \/ padLength = 0
     \/ padLength > 16
     \/ padLength > Len(plaintext) \div 2

\* C3 (as claimed): a decryption whose output ends in an invalid pad length
\* (0, above 16, above the output length) fails with an error and returns
\* no plaintext.
InvalidPaddingRejected ==
  (invalidPadding /\ pc = "idle") => outcome.kind = "threw"

\* The padded text exists: #encryptWithIV has padded the message.
padded == call = "AES_Encrypt" /\ pc # "AES_Encrypt"

\* C4: padding invariant.  For a message of n bytes the padded text is the
\* message followed by exactly p = 16 - (n mod 16) bytes, p in 1..16 (16 when
\* n is a multiple of 16), each of value p; its length is a positive multiple
\* of 16 bytes; and removing the padding leaves exactly the n message bytes.
PaddingInvariant ==
  padded =>
    LET n == Len(message)
        p == 16 - (n % 16)
    IN /\ p \in 1..16
       /\ (n % 16 = 0) => (p = 16)
       /\ Len(state) = 2 * (n + p)
       /\ slice(state, 0, 2 * n) = stringToHex(message)
       /\ \A j \in n..(n + p - 1) :
            parseInt(slice(state, 2 * j, 2 * j + 2)) = p
       /\ Len(state) > 0
       /\ Len(state) % 32 = 0
       /\ Len(removePadding(state)) = 2 * n
       /\ removePadding(state) = stringToHex(message)

\* C4, witness: a message of a positive multiple of 16 bytes has been padded.
PaddingWitness ==
  padded /\ Len(message) > 0 /\ Len(message) % 16 = 0 /\ Len(state) > 0

\* C5 (as claimed): a ciphertext whose length is no multiple of 32 hex
\* characters is rejected with an error before any block is decrypted or
\* chained.
BlockLengthRejected ==
  (call = "AES_Decrypt" /\ Len(cipherMessage) % 32 # 0)
    => /\ blockIndex = 0
       /\ chainLog = << >>
       /\ plaintext = << >>
       /\ pc = "idle" => outcome.kind = "threw"

\* C6 (as claimed): a key, IV or ciphertext with a non-hex character or of
\* odd length makes AES_Decrypt fail before any cipher work: no key
\* expansion, no block processed, no value returned.
MalformedHexRejected ==
  (call = "AES_Decrypt"
     /\ ~(isHex(argKey) /\ isHex(argIv) /\ isHex(cipherMessage)))
    => /\ expanded_key = << >>
       /\ blockIndex = 0
       /\ pc # "decryptLoop"
       /\ pc = "idle" => outcome.kind = "threw"

\* C7 (as claimed): a key that is not exactly 64 hex digits (32 bytes) is
\* rejected before key expansion: no round-key schedule is derived from it.
KeyLengthRejected ==
  (call = "AES_Decrypt" /\ Len(argKey) # 64)
    => /\ expanded_key \in { << >>, TypeError }
       /\ pc # "decryptLoop"
       /\ pc = "idle" => outcome.kind = "threw"

\* The output of the block loop of #decryptWithIV for the ciphertext as
\* AES_Encrypt produced it, under the instance's key and IV.
untampered == decryptLoop(keyExpansion(key), columnMajor(iv), cipherText, 0, << >>)

\* The call decrypted, to the end, the ciphertext with bit b of byte k of
\* block i inverted, under the instance's key and IV.
tamperedAt(i, k, b) ==
  /\ decryptedAll
  /\ argKey = key
  /\ argIv = iv
  /\ i + 2 <= Len(cipherText) \div 32
  /\ cipherMessage = flipBit(cipherText, 16 * i + k, b)

\* C8 (as claimed): inverting bit b of byte k of ciphertext block i changes
\* decrypted block i, inverts exactly bit b of byte k of decrypted block
\* i + 1, and leaves every other decrypted block as it was.
TamperingLocalised ==
  \A i \in 0..MaxFullBlocks, k \in 0..15, b \in 0..7 :
    tamperedAt(i, k, b) =>
      /\ blockAt(plaintext, i) # blockAt(untampered, i)
      /\ blockAt(plaintext, i + 1) = flipBit(blockAt(untampered, i + 1), k, b)
      /\ \A j \in 0..((Len(cipherText) \div 32) - 1) :
           (j # i /\ j # i + 1) => blockAt(plaintext, j) = blockAt(untampered, j)

\* The message with bit b of code unit n (from 0) inverted.
flipUnit(m, n, b) ==
  LET mask == 2 ^ b
  IN [j \in 1..Len(m) |->
        IF j # n + 1 THEN m[j]
        ELSE IF (m[j] \div mask) % 2 = 1 THEN m[j] - mask ELSE m[j] + mask]

\* AES_Encrypt has returned the ciphertext of the message.
encryptReturned ==
  call = "AES_Encrypt" /\ pc = "idle" /\ outcome.kind = "returned"

\* C9: forward-only propagation.  A message that differs from the encrypted
\* one only in plaintext block i has, under the same key and IV, a ciphertext
\* whose blocks before i are the same and whose blocks from i on all differ.
ForwardOnly ==
  encryptReturned =>
    \A i \in 0..MaxFullBlocks, k \in TamperBytes, b \in TamperBits :
      (16 * i + k < Len(message)) =>
        LET other == encryptWithIV(key, iv, flipUnit(message, 16 * i + k, b))
        IN /\ Len(other) = Len(cipherText)
           /\ \A j \in 0..((Len(cipherText) \div 32) - 1) :
                IF j < i
                THEN blockAt(other, j) = blockAt(cipherText, j)
                ELSE blockAt(other, j) # blockAt(cipherText, j)

\* C9, witness: a message of three blocks has been encrypted, so that a
\* change in its block 1 has a block before it and a block after it.
ForwardOnlyWitness ==
  encryptReturned /\ Len(cipherText) \div 32 >= 3 /\ Len(message) > 32

\* Cell [row][col] of a chain value that holds the 16-byte hex text `block`
\* the way both directions hold a ciphertext block: byte 4 * row + col.
heldAt(block, row, col) == slice(block, 2 * (4 * row + col), 2 * (4 * row + col) + 2)

\* Cell [i][j] of the chain value made from an IV: byte 4 * j + i.
ivAt(v, i, j) == slice(v, 2 * (4 * j + i), 2 * (4 * j + i) + 2)

\* chain is what block number n (from 0) of a call must be given: the IV
\* for block 0, the ciphertext of block n - 1 otherwise.
chainIs(chain, n, v, cipher) ==
  \A row \in 0..3, col \in 0..3 :
    at(chain, row, col) =
      IF n = 0 THEN ivAt(v, row, col)
      ELSE heldAt(blockAt(cipher, n - 1), row, col)

\* The chain values of a call in its block loop, or past it: those logged for
\* the blocks processed, and the one waiting for the next block.
chainsAre(v, cipher) ==
  /\ Len(chainLog) = blockIndex
  /\ \A n \in 0..(blockIndex - 1) : chainIs(chainLog[n + 1], n, v, cipher)
  /\ chainIs(ivMatrix, blockIndex, v, cipher)

\* C10: chain-value invariant.  In #encryptWithIV and in #decryptWithIV
\* (given an IV of 16 bytes) the chain value is the IV at block 0 and, at
\* block i + 1, the ciphertext of block i (emitted on encrypt, consumed on
\* decrypt), each ciphertext byte in the same cell in both directions; it is
\* never the plaintext or a round state, and the chain values logged for
\* earlier blocks stay as they were.
ChainValue ==
  /\ (call = "AES_Encrypt" /\ pc # "AES_Encrypt") => chainsAre(iv, cipherText)
  /\ (call = "AES_Decrypt" /\ pc = "decryptLoop" /\ Len(argIv) = 32)
       => chainsAre(argIv, cipherMessage)

\* C10, witness: a decryption under a 16-byte IV is about to process its
\* third block, two ciphertext blocks consumed.
ChainValueWitness ==
  /\ call = "AES_Decrypt"
  /\ pc = "decryptLoop"
  /\ Len(argIv) = 32
  /\ blockIndex = 2
  /\ inLoop(blockIndex, Len(cipherMessage))

\* What AES_Encrypt(m) gives on an instance with key k and IV v that has
\* made no call before.
freshEncrypt(k, v, m) ==
  LET c == encryptWithIV(k, v, m)
  IN IF c = TypeError THEN threw ELSE returned(c)

\* What AES_Decrypt(k, v, c) gives on an instance that has made no call
\* before.
freshDecrypt(k, v, c) ==
  LET decipheredMessage == decryptWithIV(k, v, c)
      text == IF decipheredMessage = TypeError THEN TypeError
              ELSE hexToString(decipheredMessage)
  IN IF text = TypeError THEN threw ELSE returned(text)

\* A call has ended with the result a first call would have had.
freshResult ==
  pc = "idle" =>
    /\ call = "AES_Encrypt" => outcome = freshEncrypt(key, iv, message)
    /\ call = "AES_Decrypt" =>
         outcome = freshDecrypt(argKey, argIv, cipherMessage)

blockAlone(schedule, v, cipher, n) ==
  LET previous == IF n = 0 THEN columnMajor(v)
                  ELSE rowMajor(blockAt(cipher, n - 1))
      matrix == decryptBlock(schedule, previous, blockAt(cipher, n))
  IN IF matrix = TypeError THEN TypeError ELSE columnJoin(matrix)

\* C12: decryption is order-independent per block.  Every plaintext block
\* the sequential loop of #decryptWithIV has produced, before the padding is
\* removed, is the block computed from the key, that ciphertext block and
\* the ciphertext block before it (the IV for block 0) alone, so the blocks
\* decrypted one by one in any order are those of the loop.
OrderIndependent ==
  (call = "AES_Decrypt" /\ pc \in { "decryptLoop", "idle" }
     /\ expanded_key # << >> /\ expanded_key # TypeError)
    => /\ Len(plaintext) = 32 * blockIndex
       /\ \A n \in 0..(blockIndex - 1) :
            blockAt(plaintext, n) =
              blockAlone(expanded_key, argIv, cipherMessage, n)

\* C12, witness: the loop has decrypted three blocks of a ciphertext that
\* was tampered with in its first block.
OrderIndependentWitness ==
  /\ decryptedAll
  /\ blockIndex = 3
  /\ cipherMessage # cipherText
  /\ blockAt(cipherMessage, 0) # blockAt(cipherText, 0)

\* Byte r + 4c of a 16-byte hex text.
columnByte(block, r, c) == slice(block, 2 * (r + 4 * c), 2 * (r + 4 * c) + 2)

\* C13 (as claimed): block byte order is preserved.  The ciphertext block
\* #encryptWithIV appends is the final state matrix in column-major order
\* (output byte r + 4c is state[r][c]), the order in which the plaintext
\* block was loaded; #decryptWithIV holds a ciphertext block in that same
\* order and emits its plaintext block in it.
ByteOrderPreserved ==
  /\ (call = "AES_Encrypt" /\ pc = "encryptLoop" /\ blockIndex > 0) =>
       \A r \in 0..3, c \in 0..3 :
         columnByte(blockAt(cipherText, blockIndex - 1), r, c)
           = at(ivMatrix, r, c)
  /\ (call = "AES_Decrypt" /\ pc = "decryptLoop" /\ blockIndex > 0
        /\ Len(cipherMessage) % 32 = 0) =>
       \A r \in 0..3, c \in 0..3 :
         columnByte(blockAt(cipherMessage, blockIndex - 1), r, c)
           = at(ivMatrix, r, c)

\* A sharing record makes the file shared with the user.
sharedWithUser(file, userId) ==
  \E i \in 1..Len(sharings) :
    /\ sharings[i].file = file._id
    /\ userId \in elements(sharings[i].sharedWith)

\* The user is the file's owner, or the file is shared with the user.
authorised(file, userId) ==
  file.owner = userId \/ sharedWithUser(file, userId)

\* The step in which the download in slot p goes from the file it looked up
\* to its return.
downloadEnds(p) ==
  /\ calls[p].op \in { "downloadFile", "downloadNormalFile" }
  /\ calls[p].pc = "File.findById"
  /\ calls'[p].pc = "done"

\* The user the download in slot p is for.
requesterOf(p) ==
  IF calls[p].op = "downloadFile" THEN calls[p].args.loggedInUser.userId
  ELSE calls[p].args.userId

\* C14 (as claimed): download authorisation.  A download of a file for a
\* user who is neither its owner nor named in a sharing record of that file
\* returns { success: false, message: "Unauthorized access" } and reads
\* nothing: neither the file nor the private key.
DownloadAuthorised ==
  [][\A p \in Requests :
       downloadEnds(p) =>
         LET file == findById(files, calls[p].args.fileId)
         IN (truthy(file) /\ ~authorised(file, requesterOf(p)))
              => /\ calls'[p].result = failure("Unauthorized access")
                 /\ reads' = reads]_vars

\* The step in which the updateShareList in slot p returns.
shareReturns(p) ==
  /\ calls[p].op = "updateShareList"
  /\ calls[p].pc # "done"
  /\ calls'[p].pc = "done"

\* Every email of the list is the email of a user.
allMatched(emails) ==
  \A i \in 1..Len(emails) : truthy(findUserByEmail(users, emails[i]))

\* The ids of the users of the emails, in the order of the list.
idsOf(emails) ==
  [i \in 1..Len(emails) |-> findUserByEmail(users, emails[i])._id]

\* C15 (as claimed): updateShareList success postcondition.  When the call
\* returns success, every email matched a user and the sharing record of the
\* file, found or created, has sharedWith equal to exactly the ids of those
\* users; when an email matches no user the call returns success: false and
\* the Sharing collection is as it was.
ShareListPostcondition ==
  [][\A p \in Requests :
       shareReturns(p) =>
         LET emails == calls[p].args.emails
             record == findSharingByFile(sharings', calls[p].args.fileId)
         IN /\ calls'[p].result.success =>
                 /\ allMatched(emails)
                 /\ truthy(record)
                 /\ record.sharedWith = idsOf(emails)
            /\ ~allMatched(emails) =>
                 /\ ~calls'[p].result.success
                 /\ sharings' = sharings]_vars

\* The results createUser documents.
createUserResults ==
  { success("User created successfully"), failure("User already exists"),
    failure("Invalid Email. Please enter a valid email address") }

\* C16 (as claimed): createUser uniqueness under interleaving.  After any
\* interleaving of createUser calls no two stored users have the same email
\* or the same username; a call that stores no user because one is stored
\* already returns "User already exists"; and every stored user's welcome
\* email was sent.
UniqueUsers ==
  /\ \A i, j \in 1..Len(users) :
       i # j => /\ users[i].email # users[j].email
                /\ users[i].username # users[j].username
  /\ \A p \in Requests :
       (calls[p].op = "createUser" /\ calls[p].pc = "done")
         => calls[p].result \in createUserResults
  /\ \A i \in 1..Len(users) : users[i].email \in mail

====
